---- MODULE Spec2Model ----
(***************************************************************************)
(* Coordination of streaming agent runs over a shared Redis store.         *)
(*                                                                         *)
(* The model follows backend/run_agent_background.py (the run executor),   *)
(* backend/core/core_utils.py (the stop procedure) and                     *)
(* backend/core/services/redis_client.py (the store operations).  One step *)
(* of an executor is one awaited store operation of the actor; the store   *)
(* applies each operation atomically.  Keys and channels are the           *)
(* colon-separated names the code builds, written as tuples of their       *)
(* parts.                                                                  *)
(***************************************************************************)
EXTENDS Integers, Sequences, FiniteSets, TLC

\* ------------------------------------------------------------------ bounds
MaxDeliveries == 2      \* deliveries of run jobs by the queue
MaxItems == 2           \* items the generators yield at most, over all deliveries
MaxExpiries == 1        \* lapses of a lock's TTL
MaxHealthTries == 2     \* failed deliveries of the check_health job
MaxPublished == 3       \* messages published with publish_to_channel
MaxCallers == 2         \* coroutines that call get_client() / initialize_async()
MaxCalls == 4           \* calls they make in all

Deliveries == 1..MaxDeliveries
Callers == 1..MaxCallers
Runs == {"r1"}
Instances == {"single"}
\* runs and instances whose discovery keys the shared store may hold
ScanRuns == {"r1", "r2", "r3"}
ScanInstances == {"single", "other"}

\* ------------------------------------------------------------- constants
REDIS_KEY_TTL == 3600 * 24
REDIS_RESPONSE_LIST_TTL == 3600 * 24
MAX_INIT_RETRIES == 5
\* worker_health.main: timeout = 20 seconds, one poll per second
timeout == 20
\* initialize_async_client: the first delay and the ceiling, in half seconds (0.5 s, 8.0 s)
FirstDelay == 1
DelayCeiling == 16

\* client = None, and _init_lock not held
NoClient == 0
NoHolder == 0

\* TTL replies of the store: no expiry set, and no such key.
NoExpiry == 0 - 1
Missing == 0 - 2

VARIABLES
    kv,             \* the store: key -> value record
    chan_log,       \* channel -> messages published on it, in order
    subscribers,    \* channel -> deliveries whose pubsub is subscribed to it
    rd_inbox,       \* pings the reader's subscription holds, not yet handled
    pc,             \* delivery -> the statement its actor is at
    job,            \* delivery -> the job's arguments [run, inst]
    lock_acquired,  \* delivery -> the reply of its SET NX
    n_responses,    \* delivery -> len(responses)
    pending,        \* delivery -> pending_redis_operations still in flight
    so_far,         \* delivery -> len(all_responses) read on the error path
    raising,        \* delivery -> an exception is propagating
    outcome,        \* delivery -> "none" | "returned" | "raised"
    stop_pc,        \* the stop procedure's position
    stop_run,       \* the run the stop procedure was called for
    stop_read,      \* all_responses the stop procedure fetched
    expiries,       \* TTL lapses so far
    winners,        \* history: run -> deliveries whose SET NX created the present lock key
    lapsed,         \* history: run -> the lock's TTL lapsed while its holder was running
    released_before,\* history: delivery -> deliveries that had ended when it acquired
    stop_hit,       \* history: delivery -> len(responses) when a stop was issued while it ran, else -1
    unpinged,       \* history: run -> an item was appended to its buffer after the last ping
    attempted,      \* history: delivery -> the steps of the finally block it has attempted
    rd_pc,          \* the reader's position
    rd_last,        \* the reader's last consumed index
    rd_seen,        \* the items the reader has observed, in the order it observed them
    rd_pings,       \* pings the reader has handled
    init_pc,        \* initialize_async_client: "idle" | "ping" | "sleep" | "connected" | "fatal"
    attempt,        \* initialize_async_client: the loop's attempt number
    delay,          \* initialize_async_client: the next sleep, in half seconds
    pings,          \* history: pings initialize_async_client has made
    hc_pc,          \* worker_health.main: "init" | "send" | "poll" | "sleep" | "passed" | "failed"
    elapsed,        \* worker_health.main: seconds slept so far
    polls,          \* history: reads of the probe key main has made
    saw_healthy,    \* history: some read of the probe key returned "healthy"
    exit_status,    \* worker_health.main: the status it exited with, -1 while running
    health_job,     \* the check_health job: "none" | "queued" | "done"
    health_tries,   \* deliveries of the check_health job that failed
    async_redis,    \* the worker's _ASYNC_REDIS is set (initialize() has run there)
    cl_pc,          \* cleanup(): "idle" | "loop" | "close" | "done" | "raised"
    running_keys,   \* cleanup(): the keys of its scan not yet handled
    stop_invoked,   \* history: runs cleanup() has called the stop procedure for
    cl_caught,      \* cleanup(): its except clause caught an exception
    ps_pc,          \* the dedicated subscriber: "none" | "subscribed" | "closed"
    ps_inbox,       \* messages the store has sent to the subscriber, not yet read
    received_messages, \* the messages the subscriber has collected, in order
    sent_subscribed,\* history: messages published while the subscriber was subscribed
    rc_initialized, \* redis_client._initialized
    rc_client,      \* redis_client.client: the client object it holds, NoClient for None
    rc_init_lock,   \* redis_client._init_lock: the caller that holds it, NoHolder when free
    gc_pc,          \* caller -> "idle" | "waiting" | "pinging" | "returned" | "raised"
    gc_via,         \* caller -> the function it called
    gc_result,      \* caller -> the client get_client() returned to it
    gc_calls,       \* calls made so far
    rc_built,       \* history: client objects built by initialize_async
    rc_inits        \* history: initializations that succeeded

exec_vars == <<pc, job, lock_acquired, n_responses, pending, so_far, raising, outcome>>
store_vars == <<kv, chan_log, subscribers, rd_inbox>>
reader_vars == <<rd_pc, rd_last, rd_seen, rd_pings>>
stop_vars == <<stop_pc, stop_run, stop_read>>
lock_hist == <<winners, lapsed, released_before, stop_hit>>
hist_vars == <<lock_hist, unpinged, attempted>>
connect_vars == <<init_pc, attempt, delay, pings>>
health_vars == <<hc_pc, elapsed, polls, saw_healthy, exit_status, health_job, health_tries,
                 async_redis>>
cleanup_vars == <<cl_pc, running_keys, stop_invoked, cl_caught>>
pubsub_vars == <<ps_pc, ps_inbox, received_messages, sent_subscribed>>
client_vars == <<rc_initialized, rc_client, rc_init_lock, gc_pc, gc_via, gc_result, gc_calls,
                 rc_built, rc_inits>>
svc_vars == <<connect_vars, health_vars, cleanup_vars, pubsub_vars, client_vars>>
vars == <<kv, chan_log, subscribers, rd_inbox, pc, job, lock_acquired, n_responses,
          pending, so_far, raising, outcome, stop_pc, stop_run, stop_read,
          expiries, winners, lapsed, released_before, stop_hit, unpinged, attempted, rd_pc, rd_last, rd_seen, rd_pings,
          svc_vars>>

\* ------------------------------------------------------- keys and channels
run_lock_key(r) == <<"agent_run_lock", r>>
instance_active_key(i) == <<"agent_instance_active", i>>
response_list_key(r) == <<"agent_responses", r>>
response_channel(r) == <<"agent_responses", r>>
global_control_channel(r) == <<"agent_control", r>>
\* the names the stop procedure builds
stop_response_list_key(r) == <<"agent_run", r, "responses">>
stop_global_control_channel(r) == <<"agent_run", r, "control">>
\* the discovery key the stop procedure and the shutdown cleanup scan for, and the
\* instance-scoped control channel the stop procedure derives from it
active_run_key(i, r) == <<"active_run", i, r>>
\* the key the worker health check writes and polls (a fresh uuid)
probe_key == <<"health_probe">>
instance_control_channel(r, i) == <<"agent_run", r, "control", i>>
\* the channel of the streaming test
thread_channel == <<"thread", "test-thread-123">>

Keys == {run_lock_key(r) : r \in Runs} \cup {instance_active_key(i) : i \in Instances}
        \cup {response_list_key(r) : r \in Runs}
        \cup {stop_response_list_key(r) : r \in Runs}
        \cup {active_run_key(i, r) : i \in ScanInstances, r \in ScanRuns}
        \cup {probe_key}
Channels == {response_channel(r) : r \in Runs}
            \cup {global_control_channel(r) : r \in Runs}
            \cup {stop_global_control_channel(r) : r \in Runs}
            \cup {instance_control_channel(r, i) : r \in Runs, i \in Instances}
            \cup {thread_channel}

\* ------------------------------------------------------------- the store
NoKey == [kind |-> "none", str |-> "", list |-> <<>>, ttl |-> Missing]
Exists(s, k) == s[k].kind # "none"

\* SET key value NX EX ttl: creates the key only when it is absent.
SetNxEx(s, k, v, ex) ==
    IF Exists(s, k) THEN s
    ELSE [s EXCEPT ![k] = [kind |-> "string", str |-> v, list |-> <<>>, ttl |-> ex]]
\* SET key value EX ttl
SetEx(s, k, v, ex) ==
    [s EXCEPT ![k] = [kind |-> "string", str |-> v, list |-> <<>>, ttl |-> ex]]
\* EXPIRE key ttl: no effect on a key that does not exist.
Expire(s, k, t) == IF Exists(s, k) THEN [s EXCEPT ![k].ttl = t] ELSE s
\* DEL key
Delete(s, k) == [s EXCEPT ![k] = NoKey]
\* Mutant of RPush: the item is pushed at the head of the list (LPUSH).
LPush(s, k, item) ==
    IF Exists(s, k) THEN [s EXCEPT ![k].list = <<item>> \o @]
    ELSE [s EXCEPT ![k] = [kind |-> "list", str |-> "", list |-> <<item>>, ttl |-> NoExpiry]]
\* RPUSH key item: creates the list, with no expiry, when the key is absent.
RPush(s, k, item) ==
    IF Exists(s, k) THEN [s EXCEPT ![k].list = Append(@, item)]
    ELSE [s EXCEPT ![k] = [kind |-> "list", str |-> "", list |-> <<item>>, ttl |-> NoExpiry]]
\* LRANGE key 0 -1
LRange(s, k) == s[k].list

\* The run the reader follows.
ReaderRun == "r1"

\* PUBLISH channel message: recorded, and handed to the reader when it is subscribed;
\* a message published while nobody is subscribed is lost.  (An executor's own pubsub
\* is never read by the code, so what it receives is not kept.)  A message on a run's
\* response channel is a ping for everything that is in the run's buffer at that moment.
Publish(c, m) ==
    /\ chan_log' = [chan_log EXCEPT ![c] = Append(@, m)]
    /\ rd_inbox' = IF rd_pc = "follow" /\ c = response_channel(ReaderRun)
                   THEN rd_inbox + 1 ELSE rd_inbox
    /\ unpinged' = [r \in Runs |-> IF c = response_channel(r) THEN FALSE ELSE unpinged[r]]

\* ------------------------------------------------------------ the items
DataItem(d, i) == [type |-> "data", by |-> d, n |-> i, error |-> ""]
completion_message(d, total) == [type |-> "completion", by |-> d, n |-> total, error |-> ""]
\* Mutant of error_response: the error item does not carry the exception's message.
error_response_no_message(d, count, msg) == [type |-> "error", by |-> d, n |-> count, error |-> ""]
error_response(d, count, msg) == [type |-> "error", by |-> d, n |-> count, error |-> msg]
GeneratorError == "generator failed"

Init ==
    /\ kv = [k \in Keys |-> NoKey]
    /\ chan_log = [c \in Channels |-> <<>>]
    /\ subscribers = [c \in Channels |-> {}]
    /\ rd_inbox = 0
    /\ pc = [d \in Deliveries |-> "queued"]
    /\ job = [d \in Deliveries |-> [run |-> "r1", inst |-> "single"]]
    /\ lock_acquired = [d \in Deliveries |-> FALSE]
    /\ n_responses = [d \in Deliveries |-> 0]
    /\ pending = [d \in Deliveries |-> {}]
    /\ so_far = [d \in Deliveries |-> 0]
    /\ raising = [d \in Deliveries |-> FALSE]
    /\ outcome = [d \in Deliveries |-> "none"]
    /\ stop_pc = "idle"
    /\ stop_run = "r1"
    /\ stop_read = <<>>
    /\ expiries = 0
    /\ winners = [r \in Runs |-> {}]
    /\ lapsed = [r \in Runs |-> FALSE]
    /\ released_before = [d \in Deliveries |-> {}]
    /\ stop_hit = [d \in Deliveries |-> 0 - 1]
    /\ unpinged = [r \in Runs |-> FALSE]
    /\ attempted = [d \in Deliveries |-> {}]
    /\ rd_pc = "start"
    /\ rd_last = 0
    /\ rd_seen = <<>>
    /\ rd_pings = 0
    /\ init_pc = "idle"
    /\ attempt = 1
    /\ delay = FirstDelay
    /\ pings = 0
    /\ hc_pc = "init"
    /\ elapsed = 0
    /\ polls = 0
    /\ saw_healthy = FALSE
    /\ exit_status = 0 - 1
    /\ health_job = "none"
    /\ health_tries = 0
    /\ async_redis = FALSE
    /\ cl_pc = "idle"
    /\ running_keys = {}
    /\ stop_invoked = {}
    /\ cl_caught = FALSE
    /\ ps_pc = "none"
    /\ ps_inbox = <<>>
    /\ received_messages = <<>>
    /\ sent_subscribed = <<>>
    /\ rc_initialized = FALSE
    /\ rc_client = NoClient
    /\ rc_init_lock = NoHolder
    /\ gc_pc = [c \in Callers |-> "idle"]
    /\ gc_via = [c \in Callers |-> "get_client"]
    /\ gc_result = [c \in Callers |-> NoClient]
    /\ gc_calls = 0
    /\ rc_built = 0
    /\ rc_inits = 0

\* ------------------------------------------------------- the run executor
\* Statements of run_agent_background between the lock reply and the lock delete.
HeldPcs == {"expire_active", "subscribe", "set_running", "generate", "gather",
            "rpush_completion", "publish_completion", "err_lrange", "err_rpush",
            "err_publish", "err_control", "err_lrange2", "err_control2",
            "unsubscribe", "delete_lock"}
\* The executor owns the run: it took the lock and has not yet deleted it.
Holding(d) == pc[d] \in HeldPcs
\* The executor has ended, or has passed its lock delete.
Released(d) == lock_acquired[d] /\ pc[d] \in {"expire_list", "done"}
\* The run's response list as the store holds it now.
Buffer(r) == LRange(kv, response_list_key(r))
IsTerminal(item) == item.type \in {"completion", "error"}

Goto(d, label) == pc' = [pc EXCEPT ![d] = label]

\* The queue hands a job to a worker; the actor builds its key names.
Deliver(d) ==
    /\ pc[d] = "queued"
    /\ \A e \in Deliveries : e < d => pc[e] # "queued"
    /\ \E r \in Runs, i \in Instances : job' = [job EXCEPT ![d] = [run |-> r, inst |-> i]]
    /\ Goto(d, "lock")
    /\ UNCHANGED <<svc_vars, store_vars, lock_acquired, n_responses, pending, so_far, raising,
                   outcome, stop_vars, expiries, hist_vars, reader_vars>>

\* Mutant of LockReply: the SET NX never reports success.
LockReplyNever(s, k) == FALSE
\* Mutant of LockReply: the reply of a SET without nx, which always succeeds.
LockReplyAlways(s, k) == TRUE
\* Mutant of LockSet: the lock is written under the instance's key, not the run's.
LockSetWrongKey(s, k, v) == SetNxEx(s, instance_active_key(v), v, REDIS_KEY_TTL)
\* Mutant of AfterLock: the return on a failed acquisition is missing.
AfterLockNoReturn(got) == "expire_active"
\* lock_acquired = await redis.set(run_lock_key, instance_id, nx=True, ex=...)
LockReply(s, k) == ~Exists(s, k)
LockSet(s, k, v) == SetNxEx(s, k, v, REDIS_KEY_TTL)
\* where the actor goes on a reply: the run when it has the lock, the return when not
AfterLock(got) == IF got THEN "expire_active" ELSE "lock_get"

AcquireLock(d) ==
    LET r == job[d].run
        k == run_lock_key(r)
        got == LockReply(kv, k)
    IN  /\ pc[d] = "lock"
        /\ kv' = LockSet(kv, k, job[d].inst)
        /\ lock_acquired' = [lock_acquired EXCEPT ![d] = got]
        /\ Goto(d, AfterLock(got))
        /\ winners' = IF got THEN [winners EXCEPT ![r] = @ \cup {d}] ELSE winners
        /\ released_before' = IF got
              THEN [released_before EXCEPT ![d] =
                       {e \in Deliveries : e # d /\ job[e].run = r /\ Released(e)}]
              ELSE released_before
        /\ UNCHANGED <<svc_vars, chan_log, subscribers, rd_inbox, job, n_responses, pending, so_far,
                       raising, outcome, stop_vars, expiries, lapsed, stop_hit, unpinged, attempted,
                       reader_vars>>

\* Mutant of LockFailedReturn: lock contention is raised as an error.
LockFailedReturnRaises(d) ==
    /\ pc[d] = "lock_get"
    /\ Goto(d, "done")
    /\ raising' = [raising EXCEPT ![d] = TRUE]
    /\ outcome' = [outcome EXCEPT ![d] = "raised"]
    /\ UNCHANGED <<svc_vars, store_vars, job, lock_acquired, n_responses, pending, so_far,
                   stop_vars, expiries, hist_vars, reader_vars>>

\* existing_instance = await redis.get(run_lock_key); log a warning; return
LockFailedReturn(d) ==
    /\ pc[d] = "lock_get"
    /\ Goto(d, "done")
    /\ outcome' = [outcome EXCEPT ![d] = "returned"]
    /\ UNCHANGED <<svc_vars, store_vars, job, lock_acquired, n_responses, pending, so_far,
                   raising, stop_vars, expiries, hist_vars, reader_vars>>

\* await redis.expire(instance_active_key, REDIS_KEY_TTL)
ExpireActive(d) ==
    /\ pc[d] = "expire_active"
    /\ kv' = Expire(kv, instance_active_key(job[d].inst), REDIS_KEY_TTL)
    /\ Goto(d, "subscribe")
    /\ UNCHANGED <<svc_vars, chan_log, subscribers, rd_inbox, job, lock_acquired, n_responses, pending,
                   so_far, raising, outcome, stop_vars, expiries, hist_vars, reader_vars>>

\* pubsub = await redis.pubsub(); await pubsub.subscribe(response_channel)
Subscribe(d) ==
    /\ pc[d] = "subscribe"
    /\ subscribers' = [subscribers EXCEPT ![response_channel(job[d].run)] = @ \cup {d}]
    /\ Goto(d, "set_running")
    /\ UNCHANGED <<svc_vars, kv, chan_log, rd_inbox, job, lock_acquired, n_responses, pending,
                   so_far, raising, outcome, stop_vars, expiries, hist_vars, reader_vars>>

\* pubsub = await redis.pubsub() raises. Redis.pubsub() of the asyncio client is a plain
\* method that returns a PubSub object; whether that object can be awaited depends on the
\* installed client, so both outcomes are kept. These lines stand before the try block
\* whose handlers write the error item and delete the lock: the exception leaves the
\* actor through the outer handler, which logs and raises it again.
SubscribeRaises(d) ==
    /\ pc[d] = "subscribe"
    /\ Goto(d, "done")
    /\ raising' = [raising EXCEPT ![d] = TRUE]
    /\ outcome' = [outcome EXCEPT ![d] = "raised"]
    /\ UNCHANGED <<svc_vars, store_vars, job, lock_acquired, n_responses, pending, so_far,
                   stop_vars, expiries, hist_vars, reader_vars>>

\* await redis.set(instance_active_key, "running", ex=REDIS_KEY_TTL)
SetRunning(d) ==
    /\ pc[d] = "set_running"
    /\ kv' = SetEx(kv, instance_active_key(job[d].inst), "running", REDIS_KEY_TTL)
    /\ Goto(d, "generate")
    /\ UNCHANGED <<svc_vars, chan_log, subscribers, rd_inbox, job, lock_acquired, n_responses, pending,
                   so_far, raising, outcome, stop_vars, expiries, hist_vars, reader_vars>>

\* await redis.set(instance_active_key, "running", ...) fails (the store does not answer):
\* like the two statements before it, this one stands before the try block, so the
\* exception leaves the actor through the outer handler and nothing is cleaned up.
SetRunningRaises(d) ==
    /\ pc[d] = "set_running"
    /\ Goto(d, "done")
    /\ raising' = [raising EXCEPT ![d] = TRUE]
    /\ outcome' = [outcome EXCEPT ![d] = "raised"]
    /\ UNCHANGED <<svc_vars, store_vars, job, lock_acquired, n_responses, pending, so_far,
                   stop_vars, expiries, hist_vars, reader_vars>>

\* The per-item store operations the loop body creates as tasks, not awaited there.
ItemTasks(i) == {[op |-> "rpush", n |-> i], [op |-> "publish", n |-> i]}

\* Items the generators have yielded so far, over all deliveries (bounded by MaxItems).
RECURSIVE SumTo(_, _)
SumTo(f, n) == IF n = 0 THEN 0 ELSE f[n] + SumTo(f, n - 1)
Produced == SumTo(n_responses, MaxDeliveries)

\* async for response in run_agent(...): the generator yields its next item
GeneratorYields(d) ==
    /\ pc[d] = "generate"
    /\ Produced < MaxItems
    /\ n_responses' = [n_responses EXCEPT ![d] = @ + 1]
    /\ pending' = [pending EXCEPT ![d] = @ \cup ItemTasks(n_responses[d] + 1)]
    /\ UNCHANGED <<svc_vars, store_vars, pc, job, lock_acquired, so_far, raising, outcome,
                   stop_vars, expiries, hist_vars, reader_vars>>

\* the generator is exhausted: the loop ends
GeneratorEnds(d) ==
    /\ pc[d] = "generate"
    /\ Goto(d, "gather")
    /\ UNCHANGED <<svc_vars, store_vars, job, lock_acquired, n_responses, pending, so_far, raising,
                   outcome, stop_vars, expiries, hist_vars, reader_vars>>

\* the generator raises: control goes to the except clause
GeneratorRaises(d) ==
    /\ pc[d] = "generate"
    /\ Goto(d, "err_lrange")
    /\ UNCHANGED <<svc_vars, store_vars, job, lock_acquired, n_responses, pending, so_far, raising,
                   outcome, stop_vars, expiries, hist_vars, reader_vars>>

\* a pending task's redis.rpush(response_list_key, response_json) reaches the store
TaskRPush(d, i) ==
    /\ [op |-> "rpush", n |-> i] \in pending[d]
    /\ kv' = RPush(kv, response_list_key(job[d].run), DataItem(d, i))
    /\ pending' = [pending EXCEPT ![d] = @ \ {[op |-> "rpush", n |-> i]}]
    /\ unpinged' = [unpinged EXCEPT ![job[d].run] = TRUE]
    /\ UNCHANGED <<svc_vars, chan_log, subscribers, rd_inbox, pc, job, lock_acquired, n_responses,
                   so_far, raising, outcome, stop_vars, expiries, lock_hist, attempted, reader_vars>>

\* a pending task's redis.publish(response_channel, "new") reaches the store
TaskPublish(d, i) ==
    /\ [op |-> "publish", n |-> i] \in pending[d]
    /\ Publish(response_channel(job[d].run), "new")
    /\ pending' = [pending EXCEPT ![d] = @ \ {[op |-> "publish", n |-> i]}]
    /\ UNCHANGED <<svc_vars, kv, subscribers, pc, job, lock_acquired, n_responses,
                   so_far, raising, outcome, stop_vars, expiries, lock_hist, attempted, reader_vars>>

\* await asyncio.gather(*pending_redis_operations, return_exceptions=True)
Gather(d) ==
    /\ pc[d] = "gather"
    /\ pending[d] = {}
    /\ Goto(d, "rpush_completion")
    /\ UNCHANGED <<svc_vars, store_vars, job, lock_acquired, n_responses, pending, so_far, raising,
                   outcome, stop_vars, expiries, hist_vars, reader_vars>>

\* await redis.rpush(response_list_key, json.dumps(completion_message))
RPushCompletion(d) ==
    /\ pc[d] = "rpush_completion"
    /\ kv' = RPush(kv, response_list_key(job[d].run), completion_message(d, n_responses[d]))
    /\ Goto(d, "publish_completion")
    /\ unpinged' = [unpinged EXCEPT ![job[d].run] = TRUE]
    /\ UNCHANGED <<svc_vars, chan_log, subscribers, rd_inbox, job, lock_acquired, n_responses, pending,
                   so_far, raising, outcome, stop_vars, expiries, lock_hist, attempted, reader_vars>>

\* await redis.publish(response_channel, "new"); the try block ends
PublishCompletion(d) ==
    /\ pc[d] = "publish_completion"
    /\ Publish(response_channel(job[d].run), "new")
    /\ Goto(d, "unsubscribe")
    /\ UNCHANGED <<svc_vars, kv, subscribers, job, lock_acquired, n_responses, pending,
                   so_far, raising, outcome, stop_vars, expiries, lock_hist, attempted, reader_vars>>

\* except: all_responses_json = await redis.lrange(response_list_key, 0, -1)
ErrLRange(d) ==
    /\ pc[d] = "err_lrange"
    /\ so_far' = [so_far EXCEPT ![d] = Len(LRange(kv, response_list_key(job[d].run)))]
    /\ Goto(d, "err_rpush")
    /\ UNCHANGED <<svc_vars, store_vars, job, lock_acquired, n_responses, pending, raising,
                   outcome, stop_vars, expiries, hist_vars, reader_vars>>

\* await redis.rpush(response_list_key, json.dumps(error_response))
ErrRPush(d) ==
    /\ pc[d] = "err_rpush"
    /\ kv' = RPush(kv, response_list_key(job[d].run),
                   error_response(d, so_far[d], GeneratorError))
    /\ Goto(d, "err_publish")
    /\ unpinged' = [unpinged EXCEPT ![job[d].run] = TRUE]
    /\ UNCHANGED <<svc_vars, chan_log, subscribers, rd_inbox, job, lock_acquired, n_responses, pending,
                   so_far, raising, outcome, stop_vars, expiries, lock_hist, attempted, reader_vars>>

\* await redis.publish(response_channel, "new")
ErrPublish(d) ==
    /\ pc[d] = "err_publish"
    /\ Publish(response_channel(job[d].run), "new")
    /\ Goto(d, "err_control")
    /\ UNCHANGED <<svc_vars, kv, subscribers, job, lock_acquired, n_responses, pending,
                   so_far, raising, outcome, stop_vars, expiries, lock_hist, attempted, reader_vars>>

\* await redis.publish(global_control_channel, json.dumps(control_signal))
ErrControl(d) ==
    /\ pc[d] = "err_control"
    /\ Publish(global_control_channel(job[d].run), "error-signal")
    /\ Goto(d, "err_lrange2")
    /\ UNCHANGED <<svc_vars, kv, subscribers, job, lock_acquired, n_responses, pending,
                   so_far, raising, outcome, stop_vars, expiries, lock_hist, attempted, reader_vars>>

\* all_responses_json = await redis.lrange(response_list_key, 0, -1), for the log only
ErrLRange2(d) ==
    /\ pc[d] = "err_lrange2"
    /\ Goto(d, "err_control2")
    /\ UNCHANGED <<svc_vars, store_vars, job, lock_acquired, n_responses, pending, so_far, raising,
                   outcome, stop_vars, expiries, hist_vars, reader_vars>>

\* await redis.publish(global_control_channel, "ERROR"); raise e
ErrControl2(d) ==
    /\ pc[d] = "err_control2"
    /\ Publish(global_control_channel(job[d].run), "ERROR")
    /\ raising' = [raising EXCEPT ![d] = TRUE]
    /\ Goto(d, "unsubscribe")
    /\ UNCHANGED <<svc_vars, kv, subscribers, job, lock_acquired, n_responses, pending,
                   so_far, outcome, stop_vars, expiries, lock_hist, attempted, reader_vars>>

\* finally: await pubsub.unsubscribe(response_channel); await pubsub.close()
Unsubscribe(d) ==
    /\ pc[d] = "unsubscribe"
    /\ subscribers' = [subscribers EXCEPT ![response_channel(job[d].run)] = @ \ {d}]
    /\ Goto(d, "delete_lock")
    /\ attempted' = [attempted EXCEPT ![d] = @ \cup {"unsubscribe", "close"}]
    /\ UNCHANGED <<svc_vars, kv, chan_log, rd_inbox, job, lock_acquired, n_responses, pending,
                   so_far, raising, outcome, stop_vars, expiries, lock_hist, unpinged, reader_vars>>

\* Mutant of ReleaseLock: the cleanup deletes the run's response list along with the lock.
ReleaseLockAndList(s, k) == Delete(Delete(s, k), response_list_key(k[2]))
\* await redis.delete(run_lock_key)
ReleaseLock(s, k) == Delete(s, k)

DeleteLock(d) ==
    /\ pc[d] = "delete_lock"
    /\ kv' = ReleaseLock(kv, run_lock_key(job[d].run))
    /\ winners' = [winners EXCEPT ![job[d].run] =
                      IF Exists(kv', run_lock_key(job[d].run)) THEN @ ELSE {}]
    /\ Goto(d, "expire_list")
    /\ attempted' = [attempted EXCEPT ![d] = @ \cup {"delete_lock"}]
    /\ UNCHANGED <<svc_vars, chan_log, subscribers, rd_inbox, job, lock_acquired, n_responses, pending,
                   so_far, raising, outcome, stop_vars, expiries, lapsed, released_before,
                   stop_hit, unpinged, reader_vars>>

\* Mutant of RetainList: the response list is deleted at once instead of retained.
RetainListDeletes(s, k) == Delete(s, k)
\* await redis.expire(response_list_key, REDIS_RESPONSE_LIST_TTL)
RetainList(s, k) == Expire(s, k, REDIS_RESPONSE_LIST_TTL)

\* ... and the actor returns, or the exception of the except clause goes on to the queue
ExpireList(d) ==
    /\ pc[d] = "expire_list"
    /\ kv' = RetainList(kv, response_list_key(job[d].run))
    /\ outcome' = [outcome EXCEPT ![d] = IF raising[d] THEN "raised" ELSE "returned"]
    /\ Goto(d, "done")
    /\ attempted' = [attempted EXCEPT ![d] = @ \cup {"expire_list"}]
    /\ UNCHANGED <<svc_vars, chan_log, subscribers, rd_inbox, job, lock_acquired, n_responses, pending,
                   so_far, raising, stop_vars, expiries, lock_hist, unpinged, reader_vars>>

\* ---------------------------------------------- failures in the finally block
\* await pubsub.unsubscribe(response_channel) raises: the handler of the same try block
\* logs it, and pubsub.close(), the next statement of that block, is skipped
UnsubscribeFails(d) ==
    /\ pc[d] = "unsubscribe"
    /\ Goto(d, "delete_lock")
    /\ attempted' = [attempted EXCEPT ![d] = @ \cup {"unsubscribe"}]
    /\ UNCHANGED <<svc_vars, store_vars, job, lock_acquired, n_responses, pending,
                   so_far, raising, outcome, stop_vars, expiries, lock_hist, unpinged, reader_vars>>

\* the unsubscribe is done and await pubsub.close() raises
ClosePubsubFails(d) ==
    /\ pc[d] = "unsubscribe"
    /\ subscribers' = [subscribers EXCEPT ![response_channel(job[d].run)] = @ \ {d}]
    /\ Goto(d, "delete_lock")
    /\ attempted' = [attempted EXCEPT ![d] = @ \cup {"unsubscribe", "close"}]
    /\ UNCHANGED <<svc_vars, kv, chan_log, rd_inbox, job, lock_acquired, n_responses, pending,
                   so_far, raising, outcome, stop_vars, expiries, lock_hist, unpinged, reader_vars>>

\* await redis.delete(run_lock_key) raises: logged, the lock key stays
DeleteLockFails(d) ==
    /\ pc[d] = "delete_lock"
    /\ Goto(d, "expire_list")
    /\ attempted' = [attempted EXCEPT ![d] = @ \cup {"delete_lock"}]
    /\ UNCHANGED <<svc_vars, store_vars, job, lock_acquired, n_responses, pending,
                   so_far, raising, outcome, stop_vars, expiries, lock_hist, unpinged, reader_vars>>

\* await redis.expire(response_list_key, ...) raises: logged, the buffer keeps no expiry
ExpireListFails(d) ==
    /\ pc[d] = "expire_list"
    /\ outcome' = [outcome EXCEPT ![d] = IF raising[d] THEN "raised" ELSE "returned"]
    /\ Goto(d, "done")
    /\ attempted' = [attempted EXCEPT ![d] = @ \cup {"expire_list"}]
    /\ UNCHANGED <<svc_vars, store_vars, job, lock_acquired, n_responses, pending,
                   so_far, raising, stop_vars, expiries, lock_hist, unpinged, reader_vars>>

\* ------------------------------------------------------------------ TTL
\* The store drops the run lock when its TTL lapses.
ExpireLock(r) ==
    /\ expiries < MaxExpiries
    /\ Exists(kv, run_lock_key(r))
    /\ kv[run_lock_key(r)].ttl >= 0
    /\ kv' = Delete(kv, run_lock_key(r))
    /\ expiries' = expiries + 1
    /\ winners' = [winners EXCEPT ![r] = {}]
    /\ lapsed' = [lapsed EXCEPT ![r] = @ \/ \E d \in Deliveries : job[d].run = r /\ Holding(d)]
    /\ UNCHANGED <<svc_vars, chan_log, subscribers, rd_inbox, exec_vars, stop_vars, released_before,
                   stop_hit, unpinged, attempted, reader_vars>>

\* ------------------------------------------------------ the stop procedure
\* stop_agent_run(db, agent_run_id) is called
StopInvoke(r) ==
    /\ stop_pc = "idle"
    /\ stop_pc' = "lrange"
    /\ stop_run' = r
    /\ stop_hit' = [d \in Deliveries |->
                       IF job[d].run = r /\ pc[d] = "generate" THEN n_responses[d]
                       ELSE stop_hit[d]]
    /\ UNCHANGED <<svc_vars, store_vars, exec_vars, stop_read, expiries, winners, lapsed,
                   released_before, unpinged, attempted, reader_vars>>

\* all_responses_json = await rc.lrange(response_list_key, 0, -1)
StopLRange ==
    /\ stop_pc = "lrange"
    /\ stop_read' = LRange(kv, stop_response_list_key(stop_run))
    /\ stop_pc' = "update_status"
    /\ UNCHANGED <<svc_vars, store_vars, exec_vars, stop_run, expiries, hist_vars, reader_vars>>

\* update_agent_run_status(client, agent_run_id, final_status, error=..., responses=...):
\* the function imported from run_agent_background takes no such keywords, so the call
\* raises TypeError and the stop procedure ends there.
StopUpdateStatus ==
    /\ stop_pc = "update_status"
    /\ stop_pc' = "raised"
    /\ UNCHANGED <<svc_vars, store_vars, exec_vars, stop_run, stop_read, expiries, hist_vars, reader_vars>>

\* --------------------------------------------------------------- reader
\* The replay-then-follow reader: read the history, subscribe, re-read on each ping.
ReaderReadHistory ==
    /\ rd_pc = "start"
    /\ rd_seen' = LRange(kv, response_list_key(ReaderRun))
    /\ rd_last' = Len(LRange(kv, response_list_key(ReaderRun)))
    /\ rd_pc' = "subscribe"
    /\ UNCHANGED <<svc_vars, store_vars, exec_vars, stop_vars, expiries, hist_vars, rd_pings>>

ReaderSubscribe ==
    /\ rd_pc = "subscribe"
    /\ rd_pc' = "follow"
    /\ UNCHANGED <<svc_vars, store_vars, exec_vars, stop_vars, expiries, hist_vars, rd_last, rd_seen, rd_pings>>

\* on a ping: re-read from the last consumed index to the tail
ReaderOnPing ==
    LET list == LRange(kv, response_list_key(ReaderRun))
    IN  /\ rd_pc = "follow"
        /\ rd_inbox > 0
        /\ rd_inbox' = rd_inbox - 1
        /\ rd_seen' = rd_seen \o SubSeq(list, rd_last + 1, Len(list))
        /\ rd_last' = Len(list)
        /\ rd_pings' = rd_pings + 1
        /\ UNCHANGED <<svc_vars, kv, chan_log, subscribers, exec_vars, stop_vars, expiries,
                       hist_vars, rd_pc>>

\* ------------------------------------------------ the store connector
\* The names core/services/redis_client.py defines at module level; a call of any other
\* name on the module raises AttributeError.
redis_client_names ==
    {"log", "DEFAULT_TIMEOUT", "HEALTH_CHECK_INTERVAL", "MAX_INIT_RETRIES", "_normalize_url",
     "build_sync_client", "build_async_client", "initialize_async_client", "client", "pool",
     "_initialized", "_init_lock", "REDIS_KEY_TTL", "initialize", "initialize_async",
     "get_client", "set", "get", "delete", "publish", "create_pubsub", "rpush", "lrange",
     "keys", "expire", "get_publisher", "get_subscriber", "publish_to_channel",
     "create_dedicated_pubsub"}
ModuleHas(name) == name \in redis_client_names

core_vars == <<store_vars, exec_vars, stop_vars, expiries, hist_vars, reader_vars>>

\* Mutant of Min: the doubling has no ceiling.
MinUncapped(a, b) == a
Min(a, b) == IF a < b THEN a ELSE b

\* Mutant of InRange: the loop makes one attempt more.
InRangeOneMore(a) == a <= MAX_INIT_RETRIES + 1
\* for attempt in range(1, MAX_INIT_RETRIES + 1)
InRange(a) == a <= MAX_INIT_RETRIES

\* worker_health.main: await retry(lambda: redis_client.initialize_async()), which builds
\* the client and enters initialize_async_client's loop
StartConnect ==
    /\ hc_pc = "init" /\ init_pc = "idle"
    /\ init_pc' = IF InRange(attempt) THEN "ping" ELSE "fatal"
    /\ UNCHANGED <<core_vars, client_vars, cleanup_vars, pubsub_vars, attempt, delay, pings, health_vars>>

\* await asyncio.wait_for(client.ping(), ...) answers: return
PingOk ==
    /\ init_pc = "ping"
    /\ pings' = pings + 1
    /\ init_pc' = "connected"
    /\ UNCHANGED <<core_vars, client_vars, cleanup_vars, pubsub_vars, attempt, delay, health_vars>>

\* the ping raises or times out: last_exc = e, and the loop goes on to its sleep
PingFails ==
    /\ init_pc = "ping"
    /\ pings' = pings + 1
    /\ init_pc' = "sleep"
    /\ UNCHANGED <<core_vars, client_vars, cleanup_vars, pubsub_vars, attempt, delay, health_vars>>

\* await asyncio.sleep(delay); delay = min(delay * 2, 8.0); the next attempt, or after
\* the last one raise RuntimeError("Unable to connect to Redis after retries. ...")
Backoff ==
    /\ init_pc = "sleep"
    /\ delay' = Min(delay * 2, DelayCeiling)
    /\ attempt' = attempt + 1
    /\ init_pc' = IF InRange(attempt + 1) THEN "ping" ELSE "fatal"
    /\ UNCHANGED <<core_vars, client_vars, cleanup_vars, pubsub_vars, pings, health_vars>>

\* ------------------------------------------------ the worker health check
\* await redis_client.get(key) == "healthy"
ReadsHealthy(s, k) == Exists(s, k) /\ s[k].str = "healthy"

\* the connection could not be made: the exception ends main
HealthConnectFailed ==
    /\ hc_pc = "init" /\ init_pc = "fatal"
    /\ hc_pc' = "failed"
    /\ exit_status' = 1
    /\ UNCHANGED <<core_vars, client_vars, cleanup_vars, pubsub_vars, connect_vars, elapsed, polls, saw_healthy, health_job,
                   health_tries, async_redis>>

\* key = uuid.uuid4().hex; run_agent_background.check_health.send(key)
HealthSend ==
    /\ hc_pc = "init" /\ init_pc = "connected"
    /\ health_job' = "queued"
    /\ hc_pc' = IF elapsed < timeout THEN "poll" ELSE "exit"
    /\ UNCHANGED <<core_vars, client_vars, cleanup_vars, pubsub_vars, connect_vars, elapsed, polls, saw_healthy, exit_status,
                   health_tries, async_redis>>

\* while elapsed < timeout: if await redis_client.get(key) == "healthy": break
HealthPoll ==
    /\ hc_pc = "poll"
    /\ polls' = polls + 1
    /\ saw_healthy' = (saw_healthy \/ (Exists(kv, probe_key) /\ kv[probe_key].str = "healthy"))
    /\ hc_pc' = IF ReadsHealthy(kv, probe_key) THEN "exit" ELSE "sleep"
    /\ UNCHANGED <<core_vars, client_vars, cleanup_vars, pubsub_vars, connect_vars, elapsed, exit_status, health_job, health_tries,
                   async_redis>>

\* await asyncio.sleep(1); elapsed += 1
HealthSleep ==
    /\ hc_pc = "sleep"
    /\ elapsed' = elapsed + 1
    /\ hc_pc' = IF elapsed + 1 < timeout THEN "poll" ELSE "exit"
    /\ UNCHANGED <<core_vars, client_vars, cleanup_vars, pubsub_vars, connect_vars, polls, saw_healthy, exit_status, health_job,
                   health_tries, async_redis>>

\* if elapsed >= timeout: exit(1)
HealthTimedOut ==
    /\ hc_pc = "exit" /\ elapsed >= timeout
    /\ hc_pc' = "failed"
    /\ exit_status' = 1
    /\ UNCHANGED <<core_vars, client_vars, cleanup_vars, pubsub_vars, connect_vars, elapsed, polls, saw_healthy, health_job,
                   health_tries, async_redis>>

\* else: await redis_client.delete(key); await redis_client.close(); exit(0).  The module
\* defines no close: the call raises AttributeError, which ends main and the process with
\* status 1 before exit(0) is reached.
HealthPassed ==
    /\ hc_pc = "exit" /\ elapsed < timeout
    /\ kv' = Delete(kv, probe_key)
    /\ hc_pc' = IF ModuleHas("close") THEN "passed" ELSE "failed"
    /\ exit_status' = IF ModuleHas("close") THEN 0 ELSE 1
    /\ UNCHANGED <<chan_log, subscribers, rd_inbox, exec_vars, stop_vars, expiries, hist_vars,
                   reader_vars, client_vars, cleanup_vars, pubsub_vars, connect_vars, elapsed, polls, saw_healthy, health_job,
                   health_tries, async_redis>>

\* the worker runs a run job: initialize() sets _ASYNC_REDIS
WorkerInitialize ==
    /\ ~async_redis
    /\ async_redis' = TRUE
    /\ UNCHANGED <<core_vars, client_vars, cleanup_vars, pubsub_vars, connect_vars, hc_pc, elapsed, polls, saw_healthy, exit_status,
                   health_job, health_tries>>

\* check_health(key): await _ASYNC_REDIS.set(key, "healthy", ex=rc.REDIS_KEY_TTL)
CheckHealth ==
    /\ health_job = "queued" /\ async_redis
    /\ kv' = SetEx(kv, probe_key, "healthy", REDIS_KEY_TTL)
    /\ health_job' = "done"
    /\ UNCHANGED <<chan_log, subscribers, rd_inbox, exec_vars, stop_vars, expiries, hist_vars,
                   reader_vars, client_vars, cleanup_vars, pubsub_vars, connect_vars, hc_pc, elapsed, polls, saw_healthy, exit_status,
                   health_tries, async_redis>>

\* check_health(key) on a worker whose _ASYNC_REDIS is still None: the actor raises and
\* the queue keeps the job for another delivery
CheckHealthFails ==
    /\ health_job = "queued" /\ ~async_redis
    /\ health_tries < MaxHealthTries
    /\ health_tries' = health_tries + 1
    /\ UNCHANGED <<core_vars, client_vars, cleanup_vars, pubsub_vars, connect_vars, hc_pc, elapsed, polls, saw_healthy, exit_status,
                   health_job, async_redis>>

\* ------------------------------------------------ shutdown cleanup
\* core_utils.instance_id, as api.py passes it to initialize()
cleanup_instance_id == "single"

\* def update_agent_run_status(agent_run_id, status, error_message=None)
update_agent_run_status_params == <<"agent_run_id", "status", "error_message">>

\* A call with npos positional arguments and the keywords kws raises TypeError when it
\* passes too many positionals, a keyword the function does not have, or a parameter twice.
CallRaisesTypeError(params, npos, kws) ==
    \/ npos > Len(params)
    \/ \E k \in kws : \A j \in DOMAIN params : params[j] = k => j <= npos

\* A run is registered for an instance: its discovery key is written.
RegisterActiveRun(i, r) ==
    /\ cl_pc = "idle"
    /\ ~Exists(kv, active_run_key(i, r))
    /\ kv' = SetEx(kv, active_run_key(i, r), "running", REDIS_KEY_TTL)
    /\ UNCHANGED <<chan_log, subscribers, rd_inbox, exec_vars, stop_vars, expiries, hist_vars,
                   reader_vars, svc_vars>>

\* cleanup(): running_keys = await rc.keys(f"active_run:{instance_id}:*")
CleanupScan ==
    /\ cl_pc = "idle"
    /\ running_keys' = {active_run_key(cleanup_instance_id, r) : r \in
                           {q \in ScanRuns : Exists(kv, active_run_key(cleanup_instance_id, q))}}
    /\ cl_pc' = "loop"
    /\ UNCHANGED <<core_vars, client_vars, connect_vars, health_vars, pubsub_vars, stop_invoked, cl_caught>>

\* for key in running_keys: await stop_agent_run_with_helpers(agent_run_id, error_message=
\* "Instance ... shutting down").  The helper calls update_agent_run_status(client,
\* agent_run_id, final_status, error=error_message); when that call raises, the exception
\* leaves the helper and the loop, to the except clause around the whole loop.
CleanupStopRun(k) ==
    /\ cl_pc = "loop"
    /\ k \in running_keys
    /\ stop_invoked' = stop_invoked \cup {k[3]}
    /\ running_keys' = running_keys \ {k}
    /\ IF CallRaisesTypeError(update_agent_run_status_params, 3, {"error"})
       THEN cl_caught' = TRUE /\ cl_pc' = "close"
       ELSE cl_caught' = cl_caught /\ cl_pc' = "loop"
    /\ UNCHANGED <<core_vars, client_vars, connect_vars, health_vars, pubsub_vars>>

\* the loop has no key left
CleanupLoopEnds ==
    /\ cl_pc = "loop"
    /\ running_keys = {}
    /\ cl_pc' = "close"
    /\ UNCHANGED <<core_vars, client_vars, connect_vars, health_vars, pubsub_vars, running_keys,
                   stop_invoked, cl_caught>>

\* await rc.close(): the module defines no close, so the call raises AttributeError and
\* cleanup() ends by raising it
CleanupClose ==
    /\ cl_pc = "close"
    /\ cl_pc' = IF ModuleHas("close") THEN "done" ELSE "raised"
    /\ UNCHANGED <<core_vars, client_vars, connect_vars, health_vars, pubsub_vars, running_keys,
                   stop_invoked, cl_caught>>

\* ------------------------------------------------ dedicated publisher and subscriber
\* the events the streaming test publishes, by their type
test_events == {"token", "status", "done"}

\* Mutant of SendToSubscriber: the message reaches the subscriber twice.
SendToSubscriberTwice(inbox, m) == Append(Append(inbox, m), m)
\* The store hands a published message to a subscribed connection, once.
SendToSubscriber(inbox, m) == Append(inbox, m)

\* subscriber = await create_dedicated_pubsub(); await subscriber.subscribe(channel)
DedicatedSubscribe ==
    /\ ps_pc = "none"
    /\ ps_pc' = "subscribed"
    /\ UNCHANGED <<core_vars, client_vars, connect_vars, health_vars, cleanup_vars, ps_inbox,
                   received_messages, sent_subscribed>>

\* publish_to_channel(channel, message): a publisher of its own publishes the message and
\* is closed; the store sends it to the connections subscribed at that moment
publish_to_channel(m) ==
    /\ Len(chan_log[thread_channel]) < MaxPublished
    /\ chan_log' = [chan_log EXCEPT ![thread_channel] = Append(@, m)]
    /\ IF ps_pc = "subscribed"
       THEN /\ ps_inbox' = SendToSubscriber(ps_inbox, m)
            /\ sent_subscribed' = Append(sent_subscribed, m)
       ELSE UNCHANGED <<ps_inbox, sent_subscribed>>
    /\ UNCHANGED <<kv, subscribers, rd_inbox, exec_vars, stop_vars, expiries, hist_vars,
                   reader_vars, client_vars, connect_vars, health_vars, cleanup_vars, ps_pc,
                   received_messages>>

\* async for message in subscriber.listen(): received_messages.append(event)
collect_messages ==
    /\ ps_pc = "subscribed"
    /\ ps_inbox # <<>>
    /\ received_messages' = Append(received_messages, Head(ps_inbox))
    /\ ps_inbox' = Tail(ps_inbox)
    /\ UNCHANGED <<core_vars, client_vars, connect_vars, health_vars, cleanup_vars, ps_pc, sent_subscribed>>

\* await subscriber.unsubscribe(channel); await subscriber.close(): what the connection
\* holds unread is dropped
DedicatedClose ==
    /\ ps_pc = "subscribed"
    /\ ps_pc' = "closed"
    /\ ps_inbox' = <<>>
    /\ UNCHANGED <<core_vars, client_vars, connect_vars, health_vars, cleanup_vars, received_messages,
                   sent_subscribed>>

\* ------------------------------------------------ the shared client
\* Mutant of SkipInit: the check under the lock is missing.
SkipInitNever(flag) == FALSE
\* async with _init_lock: if _initialized: return
SkipInit(flag) == flag

\* What a call hands back: get_client() returns the module's client, initialize_async() None.
Returned(via, cl) == IF via = "get_client" THEN cl ELSE NoClient

\* The body of initialize_async once the caller has _init_lock: return when another call
\* has initialized meanwhile; otherwise client = build_async_client() and the caller waits
\* in initialize_async_client with the lock held.
LockedInit(c, via) ==
    IF SkipInit(rc_initialized)
    THEN /\ rc_init_lock' = NoHolder
         /\ gc_pc' = [gc_pc EXCEPT ![c] = "returned"]
         /\ gc_result' = [gc_result EXCEPT ![c] = Returned(via, rc_client)]
         /\ UNCHANGED <<rc_client, rc_built>>
    ELSE /\ rc_init_lock' = c
         /\ rc_client' = rc_built + 1
         /\ rc_built' = rc_built + 1
         /\ gc_pc' = [gc_pc EXCEPT ![c] = "pinging"]
         /\ UNCHANGED gc_result

\* async with _init_lock: the caller goes on when the lock is free and waits when not
EnterInit(c, via) ==
    IF rc_init_lock = NoHolder
    THEN LockedInit(c, via)
    ELSE /\ gc_pc' = [gc_pc EXCEPT ![c] = "waiting"]
         /\ UNCHANGED <<rc_init_lock, rc_client, rc_built, gc_result>>

\* get_client(): if not _initialized: await initialize_async(); return client
CallGetClient(c) ==
    /\ gc_pc[c] \in {"idle", "returned", "raised"}
    /\ gc_calls < MaxCalls
    /\ gc_calls' = gc_calls + 1
    /\ gc_via' = [gc_via EXCEPT ![c] = "get_client"]
    /\ IF rc_initialized
       THEN /\ gc_pc' = [gc_pc EXCEPT ![c] = "returned"]
            /\ gc_result' = [gc_result EXCEPT ![c] = rc_client]
            /\ UNCHANGED <<rc_init_lock, rc_client, rc_built>>
       ELSE EnterInit(c, "get_client")
    /\ UNCHANGED <<core_vars, connect_vars, health_vars, cleanup_vars, pubsub_vars,
                   rc_initialized, rc_inits>>

\* initialize_async() called directly
CallInitializeAsync(c) ==
    /\ gc_pc[c] \in {"idle", "returned", "raised"}
    /\ gc_calls < MaxCalls
    /\ gc_calls' = gc_calls + 1
    /\ gc_via' = [gc_via EXCEPT ![c] = "initialize_async"]
    /\ EnterInit(c, "initialize_async")
    /\ UNCHANGED <<core_vars, connect_vars, health_vars, cleanup_vars, pubsub_vars,
                   rc_initialized, rc_inits>>

\* a caller waiting for _init_lock gets it
AcquireInitLock(c) ==
    /\ gc_pc[c] = "waiting"
    /\ rc_init_lock = NoHolder
    /\ LockedInit(c, gc_via[c])
    /\ UNCHANGED <<core_vars, connect_vars, health_vars, cleanup_vars, pubsub_vars,
                   rc_initialized, rc_inits, gc_via, gc_calls>>

\* await initialize_async_client(client) returns: _initialized = True, the lock is released
InitSucceeds(c) ==
    /\ gc_pc[c] = "pinging"
    /\ rc_initialized' = TRUE
    /\ rc_inits' = rc_inits + 1
    /\ rc_init_lock' = NoHolder
    /\ gc_pc' = [gc_pc EXCEPT ![c] = "returned"]
    /\ gc_result' = [gc_result EXCEPT ![c] = Returned(gc_via[c], rc_client)]
    /\ UNCHANGED <<core_vars, connect_vars, health_vars, cleanup_vars, pubsub_vars,
                   rc_client, rc_built, gc_via, gc_calls>>

\* await initialize_async_client(client) raises: logged and raised again, the lock is
\* released, _initialized stays False
InitFails(c) ==
    /\ gc_pc[c] = "pinging"
    /\ rc_init_lock' = NoHolder
    /\ gc_pc' = [gc_pc EXCEPT ![c] = "raised"]
    /\ UNCHANGED <<core_vars, connect_vars, health_vars, cleanup_vars, pubsub_vars,
                   rc_initialized, rc_client, rc_built, rc_inits, gc_via, gc_result, gc_calls>>

\* ------------------------------------------------------- specifications
\* the statements of the actor once it holds the lock, and its pending tasks
RunStep(d) ==
    \/ ExpireActive(d)
    \/ Subscribe(d)
    \/ SubscribeRaises(d)
    \/ SetRunning(d)
    \/ SetRunningRaises(d)
    \/ GeneratorYields(d)
    \/ GeneratorEnds(d)
    \/ GeneratorRaises(d)
    \/ \E i \in 1..MaxItems : TaskRPush(d, i) \/ TaskPublish(d, i)
    \/ Gather(d)
    \/ RPushCompletion(d)
    \/ PublishCompletion(d)
    \/ ErrLRange(d)
    \/ ErrRPush(d)
    \/ ErrPublish(d)
    \/ ErrControl(d)
    \/ ErrLRange2(d)
    \/ ErrControl2(d)
    \/ Unsubscribe(d)
    \/ DeleteLock(d)
    \/ ExpireList(d)

\* Deliveries of a run's job to the workers, and the lapse of the lock's TTL.
Next ==
    \/ \E d \in Deliveries : Deliver(d) \/ AcquireLock(d) \/ LockFailedReturn(d) \/ RunStep(d)
    \/ \E r \in Runs : ExpireLock(r)

Spec == Init /\ [][Next]_vars

\* One delivery, followed by a reader.
NextStream ==
    \/ Deliver(1) \/ AcquireLock(1) \/ RunStep(1)
    \/ ReaderReadHistory
    \/ ReaderSubscribe
    \/ ReaderOnPing

StreamSpec == Init /\ [][NextStream]_vars

\* One delivery, and a call of the stop procedure.
NextStop ==
    \/ Deliver(1) \/ AcquireLock(1) \/ RunStep(1)
    \/ \E r \in Runs : StopInvoke(r)
    \/ StopLRange
    \/ StopUpdateStatus

StopSpec == Init /\ [][NextStop]_vars

\* The same, with the scheduling the worker's event loop gives: a coroutine or task that
\* can take its next step takes it, every store operation is answered, and the generator
\* ends or raises after finitely many items.
FairSpec == StopSpec /\ WF_vars(Deliver(1) \/ AcquireLock(1) \/ RunStep(1))

\* One delivery whose store operations in the finally block may fail.
TeardownFailure(d) ==
    \/ UnsubscribeFails(d)
    \/ ClosePubsubFails(d)
    \/ DeleteLockFails(d)
    \/ ExpireListFails(d)

NextTeardown ==
    \/ Deliver(1) \/ AcquireLock(1) \/ RunStep(1)
    \/ TeardownFailure(1)

TeardownSpec == Init /\ [][NextTeardown]_vars

\* The worker health check: connect, enqueue the probe job, poll; and the worker.
HealthStep ==
    \/ StartConnect
    \/ PingOk
    \/ PingFails
    \/ Backoff
    \/ HealthConnectFailed
    \/ HealthSend
    \/ HealthPoll
    \/ HealthSleep
    \/ HealthTimedOut
    \/ HealthPassed

NextHealth ==
    \/ HealthStep
    \/ WorkerInitialize
    \/ CheckHealth
    \/ CheckHealthFails

HealthSpec == Init /\ [][NextHealth]_vars

\* The checking process is scheduled: each of its awaits returns or raises.
FairHealthSpec == HealthSpec /\ WF_vars(HealthStep)

\* Runs registered for instances, then the shutdown of one instance.
NextCleanup ==
    \/ \E i \in ScanInstances, r \in ScanRuns : RegisterActiveRun(i, r)
    \/ CleanupScan
    \/ \E k \in Keys : CleanupStopRun(k)
    \/ CleanupLoopEnds
    \/ CleanupClose

CleanupSpec == Init /\ [][NextCleanup]_vars

\* A dedicated subscriber and messages published with publish_to_channel.
NextPubSub ==
    \/ DedicatedSubscribe
    \/ \E m \in test_events : publish_to_channel(m)
    \/ collect_messages
    \/ DedicatedClose

PubSubSpec == Init /\ [][NextPubSub]_vars

\* Coroutines of one process calling get_client() and initialize_async().
NextClient ==
    \E c \in Callers :
        \/ CallGetClient(c)
        \/ CallInitializeAsync(c)
        \/ AcquireInitLock(c)
        \/ InitSucceeds(c)
        \/ InitFails(c)

ClientSpec == Init /\ [][NextClient]_vars

\* ================================================================ claims
SameRun(d, e) == d # e /\ job[d].run = job[e].run
ItemsBy(d) == {i \in DOMAIN Buffer(job[d].run) : Buffer(job[d].run)[i].by = d}
HasTerminalBy(d) ==
    \E i \in ItemsBy(d) : IsTerminal(Buffer(job[d].run)[i])

\* C1: for every run, as long as the lock's TTL has not lapsed while its holder was
\* running, at most one executor is between its lock acquisition and its lock delete.
C1_AtMostOneExecutor ==
    \A r \in Runs :
        ~lapsed[r] => Cardinality({d \in Deliveries : job[d].run = r /\ Holding(d)}) <= 1

\* C1 witness: one executor is appending in its loop while a second delivery of the same
\* run has been turned away, and no TTL has lapsed.
C1_Witness ==
    \E d, e \in Deliveries :
        /\ SameRun(d, e) /\ ~lapsed[job[d].run]
        /\ pc[d] = "generate" /\ ItemsBy(d) # {}
        /\ pc[e] = "done" /\ ~lock_acquired[e]

\* C2: an acquisition returns true iff that call created the lock key, a failed one
\* leaves the key as it was, and an existing lock key has exactly one acquisition that
\* returned true for it.
C2_ExactlyOneAcquires ==
    [][\A d \in Deliveries :
          (pc[d] = "lock" /\ pc'[d] # "lock") =>
              LET k == run_lock_key(job[d].run)
              IN  /\ lock_acquired'[d] <=>
                         (~Exists(kv, k) /\ Exists(kv', k) /\ kv'[k].str = job[d].inst)
                  /\ Exists(kv, k) => kv'[k] = kv[k]
                  /\ Cardinality(winners'[job[d].run]) = 1]_vars

\* C2 witness: two deliveries of a run raced for the lock; one holds it, the other got false.
C2_Witness ==
    \E d, e \in Deliveries :
        /\ SameRun(d, e)
        /\ lock_acquired[d] /\ pc[d] = "expire_active"
        /\ ~lock_acquired[e] /\ pc[e] = "lock_get"
        /\ winners[job[d].run] = {d}

\* C3 (as claimed): a run's buffer holds at most one terminal item, it is the last
\* element, and nothing is appended after it.
C3_TerminalItemLast ==
    \A r \in Runs : \A i \in DOMAIN Buffer(r) :
        IsTerminal(Buffer(r)[i]) => i = Len(Buffer(r))

\* C4 (as claimed): the items of one execution are in the buffer in the order the
\* generator produced them.
C4_ProductionOrder ==
    \A r \in Runs : \A i, j \in DOMAIN Buffer(r) :
        (i < j /\ Buffer(r)[i].type = "data" /\ Buffer(r)[j].type = "data"
               /\ Buffer(r)[i].by = Buffer(r)[j].by)
            => Buffer(r)[i].n < Buffer(r)[j].n

\* C5 (as claimed): of all the deliveries of a run's job, at most one executes the
\* generator; every other one is a no-op.
C5_AtMostOneDeliveryRuns ==
    \A r \in Runs : Cardinality({d \in Deliveries : job[d].run = r /\ lock_acquired[d]}) <= 1

\* C5 (amended): as long as the lock's TTL has not lapsed under its holder, two deliveries
\* of a run that both acquired the lock did not overlap (one had ended, or had deleted
\* its lock, before the other acquired), and a delivery turned away by the lock did
\* nothing.
C5_OverlappingDeliveriesDeduplicated ==
    \A d \in Deliveries :
        /\ \A e \in Deliveries :
              (SameRun(d, e) /\ ~lapsed[job[d].run] /\ lock_acquired[d] /\ lock_acquired[e])
                  => (d \in released_before[e] \/ e \in released_before[d])
        /\ (pc[d] \in {"lock_get", "done"} /\ ~lock_acquired[d])
              => (n_responses[d] = 0 /\ pending[d] = {} /\ ItemsBy(d) = {})

\* C5 witness: a second delivery, made after the first had ended, ran the generator again
\* and appended to the same buffer.
C5_Witness ==
    \E d, e \in Deliveries :
        /\ SameRun(d, e) /\ ~lapsed[job[d].run]
        /\ d \in released_before[e]
        /\ ItemsBy(d) # {} /\ ItemsBy(e) # {}

\* A terminal item whose kind says the run was cancelled: none of the kinds the executor
\* writes for produced output, a finished run or a failed run.
IsCancellation(item) == item.type \notin {"data", "completion", "error"}

\* C6 (as claimed): when the stop procedure was called while an executor was in its
\* generator loop, the executor consumes no further item and, by the time it has ended,
\* has appended a terminal item whose kind reflects the cancellation.
C6_StopCancelsRun ==
    \A d \in Deliveries :
        (stop_hit[d] >= 0 /\ stop_pc = "raised" /\ pc[d] = "done")
            => /\ n_responses[d] = stop_hit[d]
               /\ \E i \in ItemsBy(d) : IsCancellation(Buffer(job[d].run)[i])

\* C7: each time the reader handles a ping, what it has observed so far is exactly the
\* buffer as it is then: every item once, in buffer order.
C7_ReaderConverges ==
    [][rd_pings' = rd_pings + 1 => rd_seen' = Buffer(ReaderRun)']_vars

\* C7 witness: the reader subscribed when one item existed, missed earlier pings, and
\* after its first ping has observed the whole buffer of three items.
C7_Witness ==
    /\ rd_pc = "follow" /\ rd_pings = 1
    /\ Len(chan_log[response_channel(ReaderRun)]) >= 3
    /\ Len(Buffer(ReaderRun)) = 3
    /\ rd_seen = Buffer(ReaderRun)

\* C8 (as claimed): once an executor has the lock, a terminal item of its own is
\* eventually in the run's buffer.
C8_TerminalEventually ==
    \A d \in Deliveries : lock_acquired[d] ~> HasTerminalBy(d)

\* C9: after an executor has completed normally, the buffer exists with every item it
\* produced and its completion item, and carries the retention expiry; and the lock key
\* it created does not exist (a lock key present then was created by a later delivery).
C9_CompletedRunCleanup ==
    \A d \in Deliveries :
        (lock_acquired[d] /\ outcome[d] = "returned") =>
            LET r == job[d].run
                list == Buffer(r)
            IN  /\ \A i \in 1..n_responses[d] : \E j \in DOMAIN list : list[j] = DataItem(d, i)
                /\ \E j \in DOMAIN list : list[j] = completion_message(d, n_responses[d])
                /\ kv[response_list_key(r)].ttl = REDIS_RESPONSE_LIST_TTL
                /\ d \notin winners[r]
                /\ winners[r] = {} => ~Exists(kv, run_lock_key(r))

\* C9 witness: an executor appended two items and the completion item and returned; the
\* lock key is gone and the buffer of three items is retained.
C9_Witness ==
    \E d \in Deliveries :
        /\ lock_acquired[d] /\ outcome[d] = "returned" /\ n_responses[d] = 2
        /\ Len(Buffer(job[d].run)) = 3
        /\ ~Exists(kv, run_lock_key(job[d].run))
        /\ kv[response_list_key(job[d].run)].ttl = REDIS_RESPONSE_LIST_TTL

\* C10: the steps of an executor whose acquisition failed change nothing in the store and
\* publish nothing, and it returns without raising.
C10_FailedAcquireIsNoOp ==
    [][\A d \in Deliveries :
          (pc[d] \in {"lock", "lock_get"} /\ pc'[d] # pc[d] /\ ~lock_acquired'[d]) =>
              /\ kv' = kv /\ chan_log' = chan_log /\ subscribers' = subscribers
              /\ n_responses'[d] = 0 /\ pending'[d] = {}
              /\ pc'[d] \in {"lock_get", "done"}
              /\ pc'[d] = "done" => (outcome'[d] = "returned" /\ ~raising'[d])]_vars

\* C10 witness: a delivery found the lock held by a running executor and has returned.
C10_Witness ==
    \E d, e \in Deliveries :
        /\ SameRun(d, e)
        /\ pc[d] = "done" /\ ~lock_acquired[d] /\ outcome[d] = "returned"
        /\ Holding(e) /\ Exists(kv, run_lock_key(job[e].run))
        /\ kv[instance_active_key(job[e].inst)].str = "running"


\* The executor's subscription is closed, its lock key is gone and the buffer carries the
\* retention expiry.
CleanedUp(d) ==
    /\ d \notin subscribers[response_channel(job[d].run)]
    /\ d \notin winners[job[d].run]
    /\ kv[response_list_key(job[d].run)].ttl = REDIS_RESPONSE_LIST_TTL

\* C11: when the generator raises, the executor eventually has appended an error item
\* carrying the exception's message, has done its terminal cleanup, and has ended by
\* raising the exception to the queue.
C11_GeneratorFailurePropagates ==
    \A d \in Deliveries :
        (pc[d] = "err_lrange") ~>
            (/\ pc[d] = "done" /\ raising[d] /\ outcome[d] = "raised"
             /\ \E i \in ItemsBy(d) :
                    /\ Buffer(job[d].run)[i].type = "error"
                    /\ Buffer(job[d].run)[i].error = GeneratorError
             /\ CleanedUp(d))

\* C11 witness: the generator raised after one item; the executor has written the error
\* item, cleaned up and ended by raising.
C11_Witness ==
    \E d \in Deliveries :
        /\ pc[d] = "done" /\ outcome[d] = "raised" /\ n_responses[d] = 1
        /\ \E i \in ItemsBy(d) : Buffer(job[d].run)[i] = error_response(d, so_far[d], GeneratorError)
        /\ ~Exists(kv, run_lock_key(job[d].run))

IsPrefix(s, t) == Len(s) <= Len(t) /\ SubSeq(t, 1, Len(s)) = s

C13_DiscoveryKeyWhileRunning ==
    \A d \in Deliveries :
        pc[d] = "generate" => Exists(kv, active_run_key(job[d].inst, job[d].run))

\* C14: initialize_async_client never makes more than MAX_INIT_RETRIES pings; it fails
\* fatally only after exactly MAX_INIT_RETRIES failed pings; when a ping succeeds it
\* returns with that ping its last; and it always ends, connected or fatally.
C14_BoundedConnectRetries ==
    /\ [](/\ pings <= MAX_INIT_RETRIES
          /\ init_pc = "fatal" => pings = MAX_INIT_RETRIES
          /\ init_pc = "connected" => pings = attempt)
    /\ [][init_pc = "connected" => (pings' = pings /\ init_pc' = "connected")]_vars
    /\ <>(init_pc \in {"connected", "fatal"})

\* C14 witness: every ping failed; the connector has given up after MAX_INIT_RETRIES
\* pings, its delay at the ceiling.
C14_Witness ==
    /\ init_pc = "fatal" /\ pings = MAX_INIT_RETRIES
    /\ delay = DelayCeiling

\* C16 (as claimed): the health check makes at most `timeout` polls, always ends, and
\* exits with status 0 iff one of its polls read "healthy", with status 1 otherwise.
C16_HealthCheckBounded ==
    /\ [](/\ polls <= timeout /\ elapsed <= timeout
          /\ hc_pc = "passed" => (exit_status = 0 /\ saw_healthy)
          /\ hc_pc = "failed" => (exit_status = 1 /\ ~saw_healthy)
          /\ exit_status >= 0 <=> hc_pc \in {"passed", "failed"})
    /\ <>(hc_pc \in {"passed", "failed"})

\* C15 (as claimed): when cleanup() has ended, it has called the stop procedure for every
\* run that has a discovery key of its own instance.
C15_CleanupStopsEveryRun ==
    cl_pc \in {"done", "raised"} =>
        \A r \in ScanRuns :
            Exists(kv, active_run_key(cleanup_instance_id, r)) => r \in stop_invoked

C18_AbsentLockAdmitsExecutor ==
    [][\A d \in Deliveries :
          (pc[d] = "lock" /\ pc'[d] # "lock" /\ ~Exists(kv, run_lock_key(job[d].run)))
              => (lock_acquired'[d] /\ Holding(d)')]_vars

\* C18 witness (the double write): the TTL lapsed under a running executor, a second
\* delivery acquired the lock, and both are in their loops with items of both in the
\* run's buffer.
C18_Witness ==
    \E d, e \in Deliveries :
        /\ SameRun(d, e) /\ lapsed[job[d].run]
        /\ pc[d] = "generate" /\ pc[e] = "generate"
        /\ ItemsBy(d) # {} /\ ItemsBy(e) # {}

\* C19 (as claimed): the lock delete of an executor's cleanup never removes a lock key
\* that another executor created and still holds.
C19_CleanupSparesOthersLock ==
    [][\A d \in Deliveries :
          (pc[d] = "delete_lock" /\ pc'[d] # "delete_lock")
              => ~\E e \in winners[job[d].run] : e # d /\ Holding(e)]_vars

\* C19 (amended): as long as the lock's TTL has not lapsed under a running executor, the
\* lock delete of an executor's cleanup removes no lock key that another executor
\* created and still holds.
C19_CleanupSparesOthersLockUnlessLapsed ==
    [][\A d \in Deliveries :
          (pc[d] = "delete_lock" /\ pc'[d] # "delete_lock" /\ ~lapsed[job[d].run])
              => ~\E e \in winners[job[d].run] : e # d /\ Holding(e)]_vars

\* C19 witness: one executor has finished and deleted its lock; a later delivery acquired
\* the lock anew and is running with its lock key present; no TTL has lapsed.
C19_Witness ==
    \E d, e \in Deliveries :
        /\ SameRun(d, e) /\ ~lapsed[job[d].run]
        /\ pc[d] = "done" /\ outcome[d] = "returned" /\ lock_acquired[d]
        /\ pc[e] = "generate" /\ winners[job[e].run] = {e}
        /\ Exists(kv, run_lock_key(job[e].run))

\* C20 (as claimed): when an executor that acquired the lock has ended, the lock key it
\* created no longer exists.
C20_EveryExitDeletesLock ==
    \A d \in Deliveries :
        (lock_acquired[d] /\ pc[d] = "done") => d \notin winners[job[d].run]

\* The items of which a store operation of the executor's is still outstanding.
OutstandingItems(d) == {t.n : t \in pending[d]}

\* C21 (as claimed): the buffer append and the ping of an item have completed before the
\* executor takes the next item, so the store operations of at most one item are
\* outstanding at any time.
C21_OneItemOutstanding ==
    \A d \in Deliveries : Cardinality(OutstandingItems(d)) <= 1

\* C22 (as claimed): every item that became visible in a run's buffer has been followed
\* by a ping on the run's response channel by the time the executor has ended and none of
\* its store operations is outstanding, on the normal and on the failure path.
C22_EveryItemPinged ==
    \A d \in Deliveries :
        (lock_acquired[d] /\ pc[d] = "done" /\ pending[d] = {}) => ~unpinged[job[d].run]

\* The steps of the executor's finally block.
TeardownSteps == {"unsubscribe", "close", "delete_lock", "expire_list"}

\* C26 (as claimed): an executor that has left its finally block has attempted each of
\* its steps, whichever of them failed.
C26_TeardownAttemptsEveryStep ==
    \A d \in Deliveries :
        (pc[d] = "done" /\ attempted[d] # {}) => attempted[d] = TeardownSteps

\* The non-terminal items that precede position j of a run's buffer.
OutputBefore(r, j) == {i \in 1..(j - 1) : ~IsTerminal(Buffer(r)[i])}

\* C23 (as claimed): the count a terminal item carries (total_responses of a completion
\* item, responses_so_far of an error item) is the number of items the generator had
\* produced, and the number of non-terminal items that precede it in the buffer.
C23_TerminalCountExact ==
    \A r \in Runs : \A j \in DOMAIN Buffer(r) :
        IsTerminal(Buffer(r)[j]) =>
            /\ Buffer(r)[j].n = n_responses[Buffer(r)[j].by]
            /\ Buffer(r)[j].n = Cardinality(OutputBefore(r, j))

\* C24 (as claimed): when the stop procedure has ended, STOP has been published on the
\* run's global control channel and on the instance-scoped control channel of every
\* instance that has a discovery key for the run.
C24_StopPublishesEverywhere ==
    stop_pc = "raised" =>
        /\ \E j \in DOMAIN chan_log[stop_global_control_channel(stop_run)] :
               chan_log[stop_global_control_channel(stop_run)][j] = "STOP"
        /\ \A i \in Instances :
               Exists(kv, active_run_key(i, stop_run)) =>
                   \E j \in DOMAIN chan_log[instance_control_channel(stop_run, i)] :
                       chan_log[instance_control_channel(stop_run, i)][j] = "STOP"

\* C25 (as claimed): the stop procedure's read of the run's response buffer returns
\* exactly the items the run's executor has appended so far, in order.
C25_StopReadsExecutorsBuffer ==
    [][(stop_pc = "lrange" /\ stop_pc' # "lrange") => stop_read' = Buffer(stop_run)]_vars

\* C27 (as claimed): at every moment every key the subsystem has created (run lock,
\* instance-active marker, response buffer) carries a finite TTL.
C27_EveryKeyHasTTL ==
    \A k \in {run_lock_key(r) : r \in Runs} \cup {instance_active_key(i) : i \in Instances}
             \cup {response_list_key(r) : r \in Runs} :
        Exists(kv, k) => kv[k].ttl >= 0

\* C28 (as claimed): a check_health job picked up by a worker writes the key with the
\* value "healthy" and a TTL, whatever the worker has processed before.
C28_CheckHealthAlwaysWrites ==
    [][(health_job = "queued" /\ (health_job' = "done" \/ health_tries' # health_tries))
          => (/\ Exists(kv', probe_key)
              /\ kv'[probe_key].str = "healthy"
              /\ kv'[probe_key].ttl = REDIS_KEY_TTL)]_vars

RECURSIVE Pow2(_)
Pow2(n) == IF n = 0 THEN 1 ELSE 2 * Pow2(n - 1)

\* C29: the sleep after the first failed ping is 0.5 s; the sleep after the n-th failed
\* ping is 0.5 s doubled n - 1 times, but never more than 8 s; and each sleep is followed
\* by a delay twice as long, strictly longer, as long as the ceiling is not reached.
C29_BoundedExponentialBackoff ==
    /\ [](/\ delay >= FirstDelay /\ delay <= DelayCeiling
          /\ (init_pc = "sleep" /\ attempt = 1) => delay = FirstDelay
          /\ init_pc = "sleep" => delay = Min(FirstDelay * Pow2(attempt - 1), DelayCeiling))
    /\ [][(init_pc = "sleep" /\ init_pc' # "sleep" /\ delay < DelayCeiling)
             => (delay' = 2 * delay /\ delay' > delay /\ delay' <= DelayCeiling)]_vars

\* C29 witness: after the fifth failed ping the connector sleeps 8 s, having slept
\* 0.5, 1, 2 and 4 s after the first four.
C29_Witness ==
    /\ init_pc = "sleep" /\ attempt = MAX_INIT_RETRIES /\ pings = MAX_INIT_RETRIES
    /\ delay = DelayCeiling /\ delay = FirstDelay * Pow2(4)

\* C30: whatever calls of get_client() and initialize_async() run concurrently, at most
\* one initialization succeeds; once one has succeeded no later call builds or pings a
\* client again and every get_client() returns that same client; and a failed
\* initialization leaves _initialized false and the lock free, so a later call retries.
C30_InitializedAtMostOnce ==
    /\ [](/\ rc_inits <= 1
          /\ rc_initialized <=> rc_inits = 1
          /\ \A c \in Callers :
                (gc_pc[c] = "returned" /\ gc_via[c] = "get_client")
                    => (rc_initialized /\ gc_result[c] = rc_client /\ rc_client # NoClient))
    /\ [][rc_initialized =>
             (rc_initialized' /\ rc_client' = rc_client /\ rc_built' = rc_built
              /\ \A c \in Callers :
                    gc_pc'[c] # "pinging" /\ (gc_pc'[c] = "raised" => gc_pc[c] = "raised"))]_vars
    /\ [][\A c \in Callers :
             (gc_pc[c] = "pinging" /\ gc_pc'[c] = "raised")
                 => (~rc_initialized' /\ rc_init_lock' = NoHolder)]_vars

\* C30 witness: two callers raced; the first initialization failed, the caller that
\* waited for the lock retried with a second client and succeeded, and a later
\* get_client() of the first caller returned that same client.
C30_Witness ==
    \E c, e \in Callers :
        /\ c # e /\ rc_built = 2 /\ rc_inits = 1 /\ rc_initialized
        /\ gc_pc[c] = "returned" /\ gc_pc[e] = "returned"
        /\ gc_via[c] = "get_client" /\ gc_via[e] = "get_client"
        /\ gc_result[c] = rc_client /\ gc_result[e] = rc_client
        /\ gc_calls >= 3
====
